---- MODULE Spec2Model ----
(* Level generation and path assembly of AutoRunner (src/AutoRunner.cpp):   *)
(* CreateLevel, UpdatePath and the engine callbacks that drive them.        *)
(* A world transform is modelled by the socket it was read from: the pair   *)
(* <<block id, socket name>>; the start transform of InitGame is InitAnchor.*)
(* A rail portion (the children of one node under "Paths") is one point     *)
(* <<block id, side, posix>>.  assert(false) ends the program.              *)
EXTENDS Integers, Sequences, FiniteSets, TLC

(* ---------------------------------------------------------------- bounds *)
MaxBlocks == 6       \* blocks accepted per level before generation is cut off
MaxScore == 1        \* largest character score explored
MaxTouches == 2      \* fingers on the screen at once
MaxMovement == 3     \* largest maxMovement_ explored

(* ------------------------------------------------------ program constants *)
BatchCount == 3      \* int cnt = 3
RetryBudget == 30    \* int maxRecursive = 30
LowPoints == 3       \* GetNumPoints() <= 3
AddToPathPerCall == 3 \* AddToPath for LEFT_SIDE, RIGHT_SIDE and CENTER_SIDE
SampleSize == 3      \* unsigned int sampleSize = 3

NO_SUCCEEDED == "NO_SUCCEEDED"
LEFT_SUCCEEDED == "LEFT_SUCCEEDED"
RIGHT_SUCCEEDED == "RIGHT_SUCCEEDED"
TurnStates == {NO_SUCCEEDED, LEFT_SUCCEEDED, RIGHT_SUCCEEDED}

InitAnchor == <<0, "Init">>
NoAnchor == <<0, "None">>
NoBlock == [id |-> 0, idx |-> 0, outs |-> 0, inAt |-> NoAnchor,
            probes |-> <<>>, hit |-> {}]
NoPortion == [id |-> 0, posix |-> "None", outs |-> 0]

VARIABLES
  blockNames_,        \* the catalog: blockNames_[i+1] is the P_OUT of prefab i
  hasCharacter,       \* character_ is non-null
  dead,               \* character_->IsDead()
  turnState,          \* character_->GetTurnState()
  score,              \* character_->GetScore() as read after the death
  leftPath,           \* the character's three rails
  rightPath,
  centerPath,
  addToPathCalls,     \* AddToPath calls made by the last UpdatePath
  lastPortion,        \* history: the portion appended last in the current level
  isPlaying_,
  numBlocks_,
  blocks_,            \* the placement queue
  lastOut,            \* lastOutWorldPosition_ / lastOutWorldRotation_
  highScore,          \* static int highScore
  menuShown,          \* gameMenu_ enabled and visible
  recordMarker,       \* the new-record marker of the menu as seen on screen
  pc,                 \* position of the running callback
  caller,             \* who called CreateLevel
  cnt,                \* locals of CreateLevel
  maxRecursive,
  accepted,
  groups,             \* the group nodes of the block of the current pass
  numPlaced,          \* history: number of blocks accepted in the current level
  lastBlock,          \* history: the block accepted last in the current level
  batch,              \* history: the blocks accepted by the current CreateLevel call
  touchEnabled_,      \* the Touch object: set on a touch platform
  touchMoved_,
  deltaXY_,
  maxMovement_,
  moveTouches_,
  numTouches,         \* input->GetNumTouches()
  touchControls       \* the directional controls set by the last UpdateTouches

gameVars == <<blockNames_, hasCharacter, dead, turnState, score, leftPath,
              rightPath, centerPath, addToPathCalls, lastPortion, isPlaying_,
              numBlocks_, blocks_, lastOut, highScore, menuShown, recordMarker, pc,
              caller, cnt, maxRecursive, accepted, groups, numPlaced, lastBlock,
              batch>>

touchVars == <<touchEnabled_, touchMoved_, deltaXY_, maxMovement_, moveTouches_,
               numTouches, touchControls>>

vars == <<gameVars, touchVars>>

charVars == <<hasCharacter, dead, turnState, score>>
railVars == <<leftPath, rightPath, centerPath, addToPathCalls, lastPortion>>
localVars == <<cnt, maxRecursive, accepted, groups>>
histVars == <<numPlaced, lastBlock, batch>>

(* --------------------------------------------------------------- catalog *)
(* The catalogs explored, each the exit counts of its prefabs in catalog   *)
(* order: a 0-exit start with a fork, a 1-exit start with a 3-exit fork,   *)
(* a fork as the start block, a catalog without forks, the catalog of      *)
(* InitBlockParameters read as start, straight and fork, and the empty     *)
(* catalog of a configuration file without a root element.                 *)
Catalogs == {<<0, 2>>, <<1, 3>>, <<2, 1>>, <<1, 0>>, <<0, 1, 2>>, <<>>}

(* Exit sockets a prefab with the given exit count carries. *)
Sockets(outs) == IF outs >= 2 THEN {"OutR", "OutL"} ELSE {"Out"}

(* ----------------------------------------------------------- CreateLevel *)
(* posix and twoWay as set before the probe loop. *)
FirstPosix(outs) == IF outs >= 2 THEN "R" ELSE ""

TwoWay(outs) == IF outs >= 2 THEN 2 ELSE 1

(* outNode is looked up once, before the probe loop, and never again. *)
OutNode(outs) == "Out" \o FirstPosix(outs)

(* The socket the k-th clearance probe of a candidate is cast from: the   *)
(* loop changes posix to "L" after the first probe but keeps outNode.     *)
ProbeSocket(outs, k) == OutNode(outs)

(* Number of the first probe that reports a hit, 0 when none does. *)
FirstHit(outs, hit) ==
  IF \E k \in 1..TwoWay(outs) : ProbeSocket(outs, k) \in hit
  THEN CHOOSE k \in 1..TwoWay(outs) :
         /\ ProbeSocket(outs, k) \in hit
         /\ \A j \in 1..(k-1) : ProbeSocket(outs, j) \notin hit
  ELSE 0

(* The probes cast on a candidate, in order. *)
ProbesCast(outs, hit) ==
  LET n == IF FirstHit(outs, hit) = 0 THEN TwoWay(outs) ELSE FirstHit(outs, hit)
  IN [k \in 1..n |-> ProbeSocket(outs, k)]

(* maxRecursive as the failing probe finds it: a probe without a hit *)
(* before it has set it back to the budget.                          *)
RetriesAtHit(outs, hit) ==
  IF FirstHit(outs, hit) > 1 THEN RetryBudget ELSE maxRecursive

(* if (maxRecursive == 0) assert(false); *)
Fatal(retries) == retries = 0

(* Variant: the counter starts over instead of running out. *)
RetriesWrap(retries) == IF retries = 1 THEN RetryBudget ELSE retries - 1

(* maxRecursive--; *)
RetriesAfterReject(retries) == retries - 1

(* Variant: a clear probe leaves the counter as it is. *)
RetriesKept(retries) == retries

(* maxRecursive = 30; after a probe without a hit. *)
RetriesAfterAccept(retries) == RetryBudget

(* Variant: the block is put in front of the queue. *)
PushFront(q, block) == <<block>> \o q

(* blocks_.Push(blockNode); *)
Push(q, block) == Append(q, block)

(* The draw: Random(maxBlockNumber), forced to 0 for the starting platform. *)
Draw(r) == IF numBlocks_ = 0 THEN 0 ELSE r

(* Variant: an acceptance does not advance the anchor. *)
AnchorKept(id, outs) == lastOut

(* The anchor after an acceptance: the transform of outNode. *)
AnchorAfter(id, outs) == <<id, OutNode(outs)>>

(* Variant: a block without exits ends the batch as a fork does. *)
CntAfterDeadEnd(outs) == IF outs >= 2 \/ outs = 0 THEN 0 ELSE cnt - 1

(* Variant: a fork does not end the batch. *)
CntAfterNoFork(outs) == cnt - 1

(* cnt after an acceptance: cnt--, and 0 after a block with two ways out. *)
CntAfter(outs) == IF outs >= 2 THEN 0 ELSE cnt - 1

(* The children of the "Groups" node of each prefab, as the number of     *)
(* animated items of each group: a prefab without groups, one with one    *)
(* empty group, one with a group of one item and an empty group.          *)
GroupsOf(idx) == IF idx = 0 THEN <<>> ELSE IF idx = 1 THEN <<0>> ELSE <<1, 0>>

(* The values Random(numChildren) can take. *)
RandomGroup(numChildren) == IF numChildren = 0 THEN {0} ELSE 0..(numChildren - 1)

(* Variant: the group after the drawn one is taken as the chosen one. *)
ChosenGroupOffByOne(i, rnd) == i = rnd + 1

(* if (i == rnd) *)
ChosenGroup(i, rnd) == i = rnd

(* The group nodes of an accepted block after the loop over them: the     *)
(* chosen group stays enabled and gets a controller per animated item,    *)
(* every other group is disabled.                                         *)
GroupsAfter(items, rnd) ==
  [k \in 1..Len(items) |->
     IF ChosenGroup(k - 1, rnd)
     THEN [enabled |-> TRUE, controllers |-> items[k]]
     ELSE [enabled |-> FALSE, controllers |-> 0]]

(* ------------------------------------------------------------ UpdatePath *)
(* The points of the path node side + posix of a block. *)
PathPoints(block, side, posix) == << <<block.id, side, posix>> >>

(* Variant: the turn state is consulted at every fork, whatever startIn. *)
AtForkAnyMode(outs, startIn) == outs >= 2

(* if (outs >= 2 && !startIn) *)
AtFork(outs, startIn) == outs >= 2 /\ ~startIn

(* Variant: left and right are exchanged. *)
TurnPosixSwapped(lastState) == IF lastState = LEFT_SUCCEEDED THEN "R" ELSE "L"

(* The letter the turn state adds to the posix at a fork. *)
TurnPosix(lastState) == IF lastState = LEFT_SUCCEEDED THEN "L" ELSE "R"

(* Variant: the anchor is moved to every block the loop reads. *)
AnchorAtEveryBlock(block, posix, fork, anchor) == <<block.id, posix>>

(* lastOutWorld* = the transform of block->GetChild(posix), at a resolved *)
(* fork only.                                                            *)
AnchorAt(block, posix, fork, anchor) ==
  IF fork THEN <<block.id, posix>> ELSE anchor

(* Variant: the loop never stops at a block, it pops every block it reads. *)
KeepsFrontNever(outs, startIn) == FALSE

(* Variant: the loop stops at every block read from its In side, also at *)
(* one without exits.                                                    *)
KeepsFrontAlways(outs, startIn) == startIn

(* if (outs > 0) { if (!startIn) startIn = true; else break; }: the loop *)
(* stops at a block with exits that was read from its In side.           *)
KeepsFront(outs, startIn) == outs > 0 /\ startIn

(* The while loop of UpdatePath over the queue q: what is left of the  *)
(* queue, the anchor, the points collected, and whether the call       *)
(* returned at a fork without a turn decision.                         *)
RECURSIVE Walk(_, _, _, _)
Walk(q, startIn, acc, anchor) ==
  IF q = <<>>
  THEN [blocks |-> q, lastOut |-> anchor, points |-> acc, deferred |-> FALSE]
  ELSE
    LET block == Head(q)
        outs == block.outs
        base == IF startIn \/ outs = 0 THEN "In" ELSE "Out"
    IN IF AtFork(outs, startIn) /\ turnState = NO_SUCCEEDED
       THEN [blocks |-> q, lastOut |-> anchor, points |-> acc, deferred |-> TRUE]
       ELSE
         LET posix == IF AtFork(outs, startIn)
                      THEN base \o TurnPosix(turnState)
                      ELSE base
             anchor2 == AnchorAt(block, posix, AtFork(outs, startIn), anchor)
             acc2 == [center |-> acc.center \o PathPoints(block, "Center", posix),
                      left |-> acc.left \o PathPoints(block, "Left", posix),
                      right |-> acc.right \o PathPoints(block, "Right", posix)]
         IN IF KeepsFront(outs, startIn)
            THEN [blocks |-> q, lastOut |-> anchor2, points |-> acc2,
                  deferred |-> FALSE]
            ELSE Walk(Tail(q), startIn \/ outs > 0, acc2, anchor2)

NoPoints == [center |-> <<>>, left |-> <<>>, right |-> <<>>]

(* The outcome of UpdatePath(startIn) in the current state. *)
UpdatePath(startIn) == Walk(blocks_, startIn, NoPoints, lastOut)

(* The portion a rail point belongs to, with the exit count of its block. *)
PortionOf(point) ==
  [id |-> point[1], posix |-> point[3],
   outs |-> (CHOOSE b \in {blocks_[i] : i \in 1..Len(blocks_)} : b.id = point[1]).outs]

(* The portion appended last once the points of a call are handed over. *)
PortionAfter(points) ==
  IF points = <<>> THEN lastPortion ELSE PortionOf(points[Len(points)])

(* Variant: a call that collected no point hands nothing to the character. *)
AddToPathIfAny(deferred, points) ==
  IF deferred \/ points.center = <<>> THEN 0 ELSE AddToPathPerCall

(* The AddToPath calls of one UpdatePath call: none when it returns at the *)
(* fork, else the three calls after the loop, whatever the lists hold.     *)
AddToPath(deferred, points) == IF deferred THEN 0 ELSE AddToPathPerCall

(* The effect of UpdatePath(startIn) on the queue, the anchor and the rails. *)
DoUpdatePath(startIn) ==
  LET r == UpdatePath(startIn)
  IN /\ blocks_' = r.blocks
     /\ lastOut' = r.lastOut
     /\ addToPathCalls' = AddToPath(r.deferred, r.points)
     /\ IF r.deferred
        THEN UNCHANGED <<leftPath, rightPath, centerPath, lastPortion>>
        ELSE /\ leftPath' = leftPath \o r.points.left
             /\ rightPath' = rightPath \o r.points.right
             /\ centerPath' = centerPath \o r.points.center
             /\ lastPortion' = PortionAfter(r.points.center)

(* ----------------------------------------------------------------- Touch *)
(* IntVector2::ZERO *)
Zero == <<0, 0>>

(* The deltaPos values of the move events explored: to the left, to the   *)
(* right and upwards on the screen.                                       *)
Samples == {<<-3, 0>>, <<3, 0>>, <<0, -3>>}

Directions == {"CTRL_LEFT", "CTRL_RIGHT", "CTRL_BACK", "CTRL_JUMP"}

Abs(n) == IF n >= 0 THEN n ELSE -n

(* Integer division of the language: towards zero. *)
Quot(a, n) == IF a >= 0 THEN a \div n ELSE -((-a) \div n)

(* deltaXY_ += moveTouches_[i] over the whole vector. *)
RECURSIVE SumTouches(_, _)
SumTouches(delta, touches) ==
  IF touches = <<>> THEN delta
  ELSE SumTouches(<<delta[1] + Head(touches)[1], delta[2] + Head(touches)[2]>>,
                  Tail(touches))

(* The tests on degree = Atan2(-delta.y_, delta.x_): each is an open      *)
(* quarter of the plane around one axis, the axis included.               *)
IsLeft(delta) == delta[1] < 0 /\ Abs(delta[2]) < -delta[1]

IsRight(delta) == delta[1] > 0 /\ Abs(delta[2]) < delta[1]

IsBack(delta) == delta[2] > 0 /\ Abs(delta[1]) < delta[2]

IsUp(delta) == delta[2] < 0 /\ Abs(delta[1]) < -delta[2]

(* The controls one pass of the loop of UpdateTouches sets. On a diagonal  *)
(* the degree is 45 or 135 and no test passes.                            *)
Activations(delta) ==
  {c \in Directions :
     \/ c = "CTRL_LEFT" /\ IsLeft(delta)
     \/ c = "CTRL_RIGHT" /\ IsRight(delta)
     \/ c = "CTRL_BACK" /\ IsBack(delta)
     \/ c = "CTRL_JUMP" /\ IsUp(delta)}

(* Variant: the swipe is never used up. *)
SwipeSpentNever(movement) == FALSE

(* if (maxMovement_ > 1) *)
SwipeSpent(movement) == movement > 1

(* deltaXY_ after a completed batch of move samples. *)
BatchDelta(delta, touches, movement) ==
  IF SwipeSpent(movement) THEN Zero
  ELSE <<Quot(SumTouches(delta, touches)[1], SampleSize),
         Quot(SumTouches(delta, touches)[2], SampleSize)>>

(* if (touchMoved_ && deltaXY_ != IntVector2::ZERO) *)
SwipeActive == touchMoved_ /\ deltaXY_ # Zero

(* Touch::UpdateTouches on the controls the caller has just cleared: with *)
(* two touches the zoom pattern may be found, else every pass of the loop *)
(* over the touches sets the controls of deltaXY_ and counts them.        *)
UpdateTouches ==
  \E zoom \in (IF numTouches = 2 THEN BOOLEAN ELSE {FALSE}) :
    LET set == IF ~zoom /\ numTouches > 0 /\ SwipeActive
               THEN Activations(deltaXY_) ELSE {}
    IN /\ maxMovement_ + numTouches * Cardinality(set) <= MaxMovement
       /\ touchControls' = set
       /\ maxMovement_' = maxMovement_ + numTouches * Cardinality(set)

(* Touch::Reset *)
Reset ==
  /\ touchMoved_' = FALSE
  /\ maxMovement_' = 0
  /\ deltaXY_' = Zero

(* The members of Touch after its constructor, with no finger down. *)
TouchInit ==
  /\ touchMoved_ = FALSE
  /\ deltaXY_ = Zero
  /\ maxMovement_ = 0
  /\ moveTouches_ = <<>>
  /\ numTouches = 0
  /\ touchControls = {}

(* Touch::HandleTouchBegin *)
HandleTouchBegin ==
  /\ touchEnabled_
  /\ numTouches < MaxTouches
  /\ numTouches' = numTouches + 1
  /\ touchMoved_' = TRUE
  /\ deltaXY_' = Zero
  /\ maxMovement_' = 0
  /\ UNCHANGED <<gameVars, touchEnabled_, moveTouches_, touchControls>>

(* Touch::HandleTouchEnd *)
HandleTouchEnd ==
  /\ touchEnabled_
  /\ numTouches > 0
  /\ numTouches' = numTouches - 1
  /\ touchMoved_' = FALSE
  /\ UNCHANGED <<gameVars, touchEnabled_, deltaXY_, maxMovement_, moveTouches_,
                 touchControls>>

(* Touch::HandleTouchMove: a sample is kept until three are held; the     *)
(* event after that turns them into deltaXY_ and is itself dropped.       *)
HandleTouchMove ==
  /\ touchEnabled_
  /\ numTouches > 0
  /\ \E deltaPos \in Samples :
       IF Len(moveTouches_) >= SampleSize
       THEN /\ deltaXY_' = BatchDelta(deltaXY_, moveTouches_, maxMovement_)
            /\ moveTouches_' = <<>>
       ELSE /\ moveTouches_' = Append(moveTouches_, deltaPos)
            /\ UNCHANGED deltaXY_
  /\ UNCHANGED <<gameVars, touchEnabled_, touchMoved_, maxMovement_, numTouches,
                 touchControls>>

(* The update callback of a game in progress on a touch platform, as the  *)
(* Touch object sees it: the controls are cleared and UpdateTouches runs. *)
UpdateTouchesCall ==
  /\ touchEnabled_
  /\ UpdateTouches
  /\ UNCHANGED <<gameVars, touchEnabled_, touchMoved_, deltaXY_, moveTouches_,
                 numTouches>>

(* ResetGame as the Touch object sees it. *)
ResetCall ==
  /\ touchEnabled_
  /\ Reset
  /\ UNCHANGED <<gameVars, touchEnabled_, moveTouches_, numTouches, touchControls>>

(* ------------------------------------------------------------------ Init *)
GameInit ==
  /\ blockNames_ \in Catalogs
  /\ hasCharacter = FALSE
  /\ dead = FALSE
  /\ turnState = NO_SUCCEEDED
  /\ score = 0
  /\ leftPath = <<>>
  /\ rightPath = <<>>
  /\ centerPath = <<>>
  /\ addToPathCalls = 0
  /\ lastPortion = NoPortion
  /\ isPlaying_ = FALSE
  /\ numBlocks_ = 0
  /\ blocks_ = <<>>
  /\ lastOut = NoAnchor
  /\ highScore = 0
  /\ menuShown = TRUE
  /\ recordMarker = FALSE
  /\ pc = "idle"
  /\ caller = "none"
  /\ cnt = 0
  /\ maxRecursive = 0
  /\ accepted = FALSE
  /\ groups = <<>>
  /\ numPlaced = 0
  /\ lastBlock = NoBlock
  /\ batch = <<>>

(* The desktop build: no touch input. *)
Init ==
  /\ GameInit
  /\ touchEnabled_ = FALSE
  /\ TouchInit

(* A touch platform, before the first click on the menu. *)
TouchSpecInit ==
  /\ GameInit
  /\ blockNames_ = <<0, 1, 2>>
  /\ touchEnabled_ = TRUE
  /\ TouchInit

(* ----------------------------------------------------------- CreateLevel *)
(* Entry of CreateLevel: the locals before the while loop. *)
EnterCreateLevel(from) ==
  /\ pc' = "CreateLevel"
  /\ caller' = from
  /\ cnt' = BatchCount
  /\ maxRecursive' = RetryBudget
  /\ accepted' = FALSE
  /\ groups' = <<>>
  /\ batch' = <<>>

(* One pass of the while loop whose candidate passes every probe. *)
CreateLevelAccept ==
  /\ pc = "CreateLevel"
  /\ cnt > 0
  /\ \E r \in 0..(Len(blockNames_) - 1) :
     LET outs == blockNames_[Draw(r) + 1]
     IN \E hit \in SUBSET Sockets(outs) :
        LET id == numPlaced + 1
            block == [id |-> id, idx |-> Draw(r), outs |-> outs, inAt |-> lastOut,
                      probes |-> ProbesCast(outs, hit), hit |-> hit]
        IN /\ FirstHit(outs, hit) = 0
           /\ accepted' = TRUE
           /\ maxRecursive' = RetriesAfterAccept(maxRecursive)
           /\ cnt' = CntAfter(outs)
           /\ numBlocks_' = numBlocks_ + 1
           /\ blocks_' = Push(blocks_, block)
           /\ lastOut' = AnchorAfter(id, outs)
           /\ numPlaced' = id
           /\ lastBlock' = block
           /\ batch' = Append(batch, block)
           /\ \E rnd \in RandomGroup(Len(GroupsOf(Draw(r)))) :
                groups' = GroupsAfter(GroupsOf(Draw(r)), rnd)
  /\ UNCHANGED <<blockNames_, charVars, railVars, isPlaying_, highScore,
                 menuShown, recordMarker, pc, caller>>
  /\ UNCHANGED touchVars

(* Variant: a rejected candidate uses up a place of the batch. *)
CreateLevelRejectCounts ==
  /\ pc = "CreateLevel"
  /\ cnt > 0
  /\ \E r \in 0..(Len(blockNames_) - 1) :
     LET outs == blockNames_[Draw(r) + 1]
     IN \E hit \in SUBSET Sockets(outs) :
        /\ FirstHit(outs, hit) > 0
        /\ ~Fatal(RetriesAtHit(outs, hit))
        /\ maxRecursive' = RetriesAfterReject(RetriesAtHit(outs, hit))
  /\ accepted' = FALSE
  /\ groups' = <<>>
  /\ cnt' = cnt - 1
  /\ UNCHANGED <<blockNames_, charVars, railVars, isPlaying_, numBlocks_, blocks_,
                 lastOut, highScore, menuShown, recordMarker, pc, caller, histVars>>
  /\ UNCHANGED touchVars

(* One pass of the while loop whose candidate is hit by a probe and removed. *)
CreateLevelReject ==
  /\ pc = "CreateLevel"
  /\ cnt > 0
  /\ \E r \in 0..(Len(blockNames_) - 1) :
     LET outs == blockNames_[Draw(r) + 1]
     IN \E hit \in SUBSET Sockets(outs) :
        /\ FirstHit(outs, hit) > 0
        /\ ~Fatal(RetriesAtHit(outs, hit))
        /\ maxRecursive' = RetriesAfterReject(RetriesAtHit(outs, hit))
  /\ accepted' = FALSE
  /\ groups' = <<>>
  /\ UNCHANGED <<blockNames_, charVars, railVars, isPlaying_, numBlocks_, blocks_,
                 lastOut, highScore, menuShown, recordMarker, pc, caller, cnt, histVars>>
  /\ UNCHANGED touchVars

(* A probe hit with no retry left: assert(false). *)
CreateLevelAbort ==
  /\ pc = "CreateLevel"
  /\ cnt > 0
  /\ \E r \in 0..(Len(blockNames_) - 1) :
     LET outs == blockNames_[Draw(r) + 1]
     IN \E hit \in SUBSET Sockets(outs) :
        /\ FirstHit(outs, hit) > 0
        /\ Fatal(RetriesAtHit(outs, hit))
        /\ maxRecursive' = RetriesAtHit(outs, hit)
  /\ accepted' = TRUE
  /\ groups' = <<>>
  /\ pc' = "aborted"
  /\ UNCHANGED <<blockNames_, charVars, railVars, isPlaying_, numBlocks_, blocks_,
                 lastOut, highScore, menuShown, recordMarker, caller, cnt, histVars>>
  /\ UNCHANGED touchVars

(* Variant: with nothing to draw from, the loop gives up quietly. *)
CreateLevelNoCatalogSkips ==
  /\ pc = "CreateLevel"
  /\ cnt > 0
  /\ Len(blockNames_) = 0
  /\ cnt' = 0
  /\ UNCHANGED <<blockNames_, charVars, railVars, isPlaying_, numBlocks_, blocks_,
                 lastOut, highScore, menuShown, recordMarker, pc, caller, maxRecursive, accepted,
                 groups, histVars>>
  /\ UNCHANGED touchVars

(* The first pass with an empty catalog: blockNames_[rnd] is out of range. *)
(* With assertions the vector's range assertion stops the program; without *)
(* them the read goes through the empty vector's null buffer. Either way   *)
(* the program ends at that line, before a prefab is instantiated.         *)
CreateLevelNoCatalog ==
  /\ pc = "CreateLevel"
  /\ cnt > 0
  /\ Len(blockNames_) = 0
  /\ pc' = "aborted"
  /\ UNCHANGED <<blockNames_, charVars, railVars, isPlaying_, numBlocks_, blocks_,
                 lastOut, highScore, menuShown, recordMarker, caller, localVars, histVars>>
  /\ UNCHANGED touchVars

(* Variant: the default of UpdatePath's argument is false. *)
StartInUnset == FALSE

(* void UpdatePath(bool startIn = true): the argument of UpdatePath(). *)
StartInDefault == TRUE

(* The loop has ended: UpdatePath() and return to the caller. *)
CreateLevelExit ==
  /\ pc = "CreateLevel"
  /\ cnt = 0
  /\ DoUpdatePath(StartInDefault)
  /\ pc' = IF caller = "HandleUpdate" THEN "HandleUpdate" ELSE "idle"
  /\ caller' = "none"
  /\ cnt' = 0
  /\ maxRecursive' = 0
  /\ accepted' = FALSE
  /\ groups' = <<>>
  /\ batch' = <<>>
  /\ UNCHANGED <<blockNames_, charVars, isPlaying_, numBlocks_, highScore,
                 menuShown, recordMarker, numPlaced, lastBlock>>
  /\ UNCHANGED touchVars

(* ---------------------------------------------------------- HandleUpdate *)
(* character_->GetNumPoints() *)
GetNumPoints == Len(centerPath)

(* Variant: path maintenance waits until fewer than 3 points are left. *)
PathLowStrict(points) == points < LowPoints

(* if (character_->GetNumPoints() <= 3) *)
PathLow(points) == points <= LowPoints

(* Variant: the queue is refilled as soon as it is shorter than a batch. *)
QueueBelowBatch(size) == size < BatchCount

(* Variant: the update callback never refills the queue. *)
QueueSpentNever(size) == FALSE

(* if (blocks_.Size() <= 0) *)
QueueSpent(size) == size <= 0

(* HandleUpdate up to the point where CreateLevel is entered or skipped. *)
HandleUpdate ==
  /\ pc = "idle"
  /\ IF hasCharacter /\ ~dead
     THEN IF PathLow(GetNumPoints)
          THEN /\ DoUpdatePath(FALSE)
               /\ IF QueueSpent(Len(UpdatePath(FALSE).blocks))
                  THEN /\ numPlaced + BatchCount <= MaxBlocks
                       /\ EnterCreateLevel("HandleUpdate")
                  ELSE /\ pc' = "HandleUpdate"
                       /\ UNCHANGED <<caller, localVars, batch>>
          ELSE /\ pc' = "HandleUpdate"
               /\ UNCHANGED <<blocks_, lastOut, railVars, caller, localVars,
                              batch>>
     ELSE UNCHANGED <<blocks_, lastOut, railVars, pc, caller, localVars, batch>>
  /\ UNCHANGED <<blockNames_, charVars, isPlaying_, numBlocks_, highScore,
                 menuShown, recordMarker, numPlaced, lastBlock>>
  /\ UNCHANGED touchVars

(* The rest of HandleUpdate: FollowPath, the controls and isPlaying_. *)
HandleUpdateEnd ==
  /\ pc = "HandleUpdate"
  /\ \E n \in 0..1 :
       /\ n <= Len(centerPath)
       /\ centerPath' = SubSeq(centerPath, n + 1, Len(centerPath))
       /\ leftPath' = SubSeq(leftPath, n + 1, Len(leftPath))
       /\ rightPath' = SubSeq(rightPath, n + 1, Len(rightPath))
  /\ \E onGround \in BOOLEAN :
       isPlaying_' = IF ~isPlaying_ THEN onGround ELSE isPlaying_
  /\ pc' = "idle"
  /\ UNCHANGED <<blockNames_, charVars, addToPathCalls, lastPortion, numBlocks_, blocks_,
                 lastOut, highScore, menuShown, recordMarker, caller, localVars, histVars>>
  /\ IF touchEnabled_
     THEN /\ UpdateTouches
          /\ UNCHANGED <<touchEnabled_, touchMoved_, deltaXY_, moveTouches_,
                         numTouches>>
     ELSE UNCHANGED touchVars

(* The character component between callbacks: steering and physics. *)
CharacterStep ==
  /\ pc = "idle"
  /\ hasCharacter
  /\ ~dead
  /\ turnState' \in TurnStates
  /\ dead' \in BOOLEAN
  /\ score' \in IF dead' THEN 0..MaxScore ELSE {score}
  /\ UNCHANGED <<blockNames_, hasCharacter, railVars, isPlaying_, numBlocks_,
                 blocks_, lastOut, highScore, menuShown, recordMarker, pc, caller, localVars,
                 histVars>>
  /\ UNCHANGED touchVars

(* HandleFixedUpdate: the handler of the physics pre-step has an empty body. *)
HandleFixedUpdate ==
  /\ pc = "idle"
  /\ UNCHANGED vars

(* HandlePostRenderUpdate: debug geometry is drawn, nothing is written. *)
HandlePostRenderUpdate ==
  /\ pc = "idle"
  /\ UNCHANGED vars

(* ------------------------------------------------------ HandlePostUpdate *)
(* Variant: a death is handled whether or not the game was being played. *)
DeathPendingAnyTime == hasCharacter /\ dead

(* if (!character_) return; if (character_->IsDead()) { if (!isPlaying_) *)
(* return; ...: the death the post-update callback handles.              *)
DeathPending == hasCharacter /\ dead /\ isPlaying_

(* Variant: a score equal to the high score counts as a new record. *)
NewRecordOrEqual(high, points) == high <= points

(* if (highScore < character_->GetScore()) *)
NewRecord(high, points) == high < points

(* Variant: the handled death also clears the placement queue. *)
HandlePostUpdateClearsQueue ==
  /\ pc = "idle"
  /\ IF DeathPending
     THEN /\ highScore' = IF NewRecord(highScore, score) THEN score ELSE highScore
          /\ recordMarker' = NewRecord(highScore, score)
          /\ menuShown' = TRUE
          /\ isPlaying_' = FALSE
          /\ numBlocks_' = 0
          /\ blocks_' = <<>>
     ELSE UNCHANGED <<highScore, menuShown, recordMarker, isPlaying_, numBlocks_, blocks_>>
  /\ UNCHANGED <<blockNames_, charVars, railVars, lastOut, pc, caller,
                 localVars, histVars>>
  /\ UNCHANGED touchVars

(* Variant: the death leaves numBlocks_ as it is. *)
HandlePostUpdateKeepsCount ==
  /\ pc = "idle"
  /\ IF DeathPending
     THEN /\ highScore' = IF NewRecord(highScore, score) THEN score ELSE highScore
          /\ recordMarker' = NewRecord(highScore, score)
          /\ menuShown' = TRUE
          /\ isPlaying_' = FALSE
     ELSE UNCHANGED <<highScore, menuShown, recordMarker, isPlaying_>>
  /\ UNCHANGED <<blockNames_, charVars, railVars, numBlocks_, blocks_, lastOut,
                 pc, caller, localVars, histVars>>
  /\ UNCHANGED touchVars

HandlePostUpdate ==
  /\ pc = "idle"
  /\ IF DeathPending
     THEN /\ highScore' = IF NewRecord(highScore, score) THEN score ELSE highScore
          /\ recordMarker' = NewRecord(highScore, score)
          /\ menuShown' = TRUE
          /\ isPlaying_' = FALSE
          /\ numBlocks_' = 0
     ELSE UNCHANGED <<highScore, menuShown, recordMarker, isPlaying_, numBlocks_>>
  /\ UNCHANGED <<blockNames_, charVars, railVars, blocks_, lastOut, pc, caller,
                 localVars, histVars>>
  /\ UNCHANGED touchVars

(* -------------------------------------------------- HandleControlClicked *)
(* Variant: ResetGame leaves the queue as it is. *)
ResetGameKeepsBlocks == blocks_

(* ResetGame does nothing without a character, else it clears the queue. *)
ResetGameBlocks == IF hasCharacter THEN <<>> ELSE blocks_

(* Variant: a click on "PlayBtn" never runs ResetGame. *)
NeedsResetNever == FALSE

(* if (character_ && character_->IsDead()) *)
NeedsReset == hasCharacter /\ dead

(* "PlayBtn": ResetGame after a death, then InitGame up to CreateLevel. *)
HandleControlClickedPlay ==
  /\ pc = "idle"
  /\ menuShown
  /\ menuShown' = FALSE
  /\ recordMarker' = FALSE
  /\ blocks_' = IF NeedsReset THEN ResetGameBlocks ELSE blocks_
  /\ hasCharacter' = TRUE
  /\ dead' = FALSE
  /\ turnState' = NO_SUCCEEDED
  /\ score' = 0
  /\ leftPath' = <<>>
  /\ rightPath' = <<>>
  /\ centerPath' = <<>>
  /\ addToPathCalls' = 0
  /\ lastPortion' = NoPortion
  /\ lastOut' = InitAnchor
  /\ numPlaced' = 0
  /\ lastBlock' = NoBlock
  /\ EnterCreateLevel("HandleControlClicked")
  /\ IF NeedsReset THEN Reset ELSE UNCHANGED <<touchMoved_, maxMovement_, deltaXY_>>
  /\ UNCHANGED <<touchEnabled_, moveTouches_, numTouches, touchControls>>
  /\ UNCHANGED <<blockNames_, isPlaying_, numBlocks_, highScore>>

(* "ExitBtn": engine_->Exit(), after which Stop() runs ResetGame. *)
HandleControlClickedExit ==
  /\ pc = "idle"
  /\ menuShown
  /\ pc' = "exited"
  /\ blocks_' = ResetGameBlocks
  /\ hasCharacter' = FALSE
  /\ leftPath' = <<>>
  /\ rightPath' = <<>>
  /\ centerPath' = <<>>
  /\ UNCHANGED <<blockNames_, dead, turnState, score, addToPathCalls, lastPortion, isPlaying_,
                 numBlocks_, lastOut, highScore, menuShown, recordMarker, caller, localVars,
                 histVars>>
  /\ IF hasCharacter THEN Reset ELSE UNCHANGED <<touchMoved_, maxMovement_, deltaXY_>>
  /\ UNCHANGED <<touchEnabled_, moveTouches_, numTouches, touchControls>>

(* ------------------------------------------------------------------ Next *)
CreateLevelStep ==
  \/ CreateLevelAccept
  \/ CreateLevelReject
  \/ CreateLevelAbort
  \/ CreateLevelNoCatalog
  \/ CreateLevelExit

Next ==
  \/ CreateLevelAccept
  \/ CreateLevelReject
  \/ CreateLevelAbort
  \/ CreateLevelNoCatalog
  \/ CreateLevelExit
  \/ HandleUpdate
  \/ HandleUpdateEnd
  \/ CharacterStep
  \/ HandleFixedUpdate
  \/ HandlePostUpdate
  \/ HandlePostRenderUpdate
  \/ HandleControlClickedPlay
  \/ HandleControlClickedExit

Spec == Init /\ [][Next]_vars

(* The Touch object under every order of its events and calls. *)
TouchNext ==
  \/ HandleTouchBegin
  \/ HandleTouchEnd
  \/ HandleTouchMove
  \/ UpdateTouchesCall
  \/ ResetCall

TouchSpec == TouchSpecInit /\ [][TouchNext]_vars

(* CreateLevel is one synchronous call: once entered, its loop keeps running. *)
FairSpec == Spec /\ WF_vars(CreateLevelStep)

TypeOK ==
  /\ pc \in {"idle", "CreateLevel", "HandleUpdate", "aborted", "exited"}
  /\ cnt \in 0..BatchCount
  /\ maxRecursive \in 0..RetryBudget
  /\ numPlaced <= MaxBlocks
  /\ Len(blocks_) <= BatchCount
  /\ addToPathCalls \in {0, AddToPathPerCall}

(* ================================================================ claims *)
(* The update callback is about to call UpdatePath(false). *)
PathCallState == pc = "idle" /\ hasCharacter /\ ~dead /\ GetNumPoints <= LowPoints

(* The exits of a block that a probe was cast from and found free. *)
ClearProbed(b) == {b.probes[k] : k \in 1..Len(b.probes)} \ b.hit

(* C1: in every level, also after a death and a restart, the first block  *)
(* accepted is catalog index 0: whenever CreateLevel runs, the draw is    *)
(* forced (numBlocks_ = 0) exactly while no block of the level has been   *)
(* accepted, and the block with id 1 has index 0.                         *)
C1_StartBlockFirst ==
  /\ pc = "CreateLevel" => (numBlocks_ = 0 <=> numPlaced = 0)
  /\ numPlaced = 1 => lastBlock.idx = 0
  /\ \A i \in 1..Len(batch) : batch[i].id = 1 => batch[i].idx = 0

(* A level after a death whose first block is index 0 and whose second    *)
(* block is another catalog entry.                                        *)
C1_Witness ==
  /\ highScore > 0
  /\ hasCharacter /\ ~dead
  /\ pc = "CreateLevel"
  /\ Len(batch) >= 2
  /\ batch[1].id = 1 /\ batch[1].idx = 0
  /\ batch[2].idx # 0

(* C2 as stated: in one CreateLevel call a fork is the last block         *)
(* accepted, and with the catalog <<start, fork>> the batch starts with   *)
(* the start block.                                                       *)
C2_Original ==
  /\ \A i \in 1..Len(batch) : batch[i].outs >= 2 => (i = Len(batch) /\ cnt = 0)
  /\ (blockNames_ = <<0, 2>> /\ batch # <<>>) => batch[1].idx = 0

(* C2 amended: in one CreateLevel call a fork is the last block accepted  *)
(* and ends the batch; with the catalog <<start, fork>> the first batch   *)
(* of a level starts with the start block.                                *)
C2_ForkEndsBatch ==
  /\ \A i \in 1..Len(batch) : batch[i].outs >= 2 => (i = Len(batch) /\ cnt = 0)
  /\ (blockNames_ = <<0, 2>> /\ batch # <<>> /\ batch[1].id = 1) =>
       (batch[1].idx = 0 /\ batch[1].outs = 0)

(* The batch <<start, fork>>, ended by the fork after two blocks. *)
C2_Witness ==
  /\ blockNames_ = <<0, 2>>
  /\ pc = "CreateLevel"
  /\ Len(batch) = 2
  /\ batch[1].idx = 0
  /\ batch[2].outs >= 2
  /\ cnt = 0

(* C3: wherever the update callback calls UpdatePath(false) and the call  *)
(* meets a fork with the turn state NO_SUCCEEDED, the call has popped no  *)
(* block and collected no point when it returns; the step leaves the      *)
(* queue, the anchor and the three rails as they were, calls AddToPath    *)
(* not at all, and a second call would give the same outcome.             *)
C3_DeferredChangesNothing ==
  /\ []((PathCallState /\ UpdatePath(FALSE).deferred) =>
          /\ UpdatePath(FALSE).blocks = blocks_
          /\ UpdatePath(FALSE).lastOut = lastOut
          /\ UpdatePath(FALSE).points = NoPoints)
  /\ [][(PathCallState /\ UpdatePath(FALSE).deferred /\ pc' = "HandleUpdate") =>
          /\ UNCHANGED <<blocks_, lastOut, leftPath, rightPath, centerPath>>
          /\ addToPathCalls' = 0
          /\ UpdatePath(FALSE)' = UpdatePath(FALSE)]_vars

(* The update callback right after a deferred UpdatePath(false). *)
C3_Witness ==
  /\ pc = "HandleUpdate"
  /\ addToPathCalls = 0
  /\ blocks_ # <<>>
  /\ Head(blocks_).outs >= 2
  /\ turnState = NO_SUCCEEDED
  /\ centerPath # <<>>

(* C4: the block accepted after a fork is placed at one of the fork's two *)
(* exits, and at one that a probe was cast from and found free when the   *)
(* fork was accepted.                                                     *)
C4_ForkExitProbed ==
  [][(numPlaced' = numPlaced + 1 /\ lastBlock.outs >= 2) =>
       \E s \in ClearProbed(lastBlock) \cap {"OutL", "OutR"} :
          lastBlock'.inAt = <<lastBlock.id, s>>]_vars

(* C5: a fork in the queue was accepted after two probes, the first cast  *)
(* from OutR and the second from OutL, and neither exit is obstructed.    *)
C5_ForkBothExitsProbed ==
  \A i \in 1..Len(blocks_) :
     blocks_[i].outs >= 2 =>
        (blocks_[i].probes = <<"OutR", "OutL">> /\ blocks_[i].hit = {})

(* C6: a pass of the CreateLevel loop that ends with accepted = false     *)
(* leaves the queue, the anchor, numBlocks_, the batch count and the      *)
(* rails unchanged, takes exactly one retry and stays in the loop with    *)
(* the same slot to fill.                                                 *)
C6_RejectionFrame ==
  [][(pc = "CreateLevel" /\ pc' = "CreateLevel" /\ ~accepted') =>
       /\ UNCHANGED <<blocks_, lastOut, numBlocks_, cnt, numPlaced, batch,
                      leftPath, rightPath, centerPath>>
       /\ maxRecursive' = maxRecursive - 1
       /\ cnt' > 0]_vars

(* A rejection after at least one acceptance of the same call. *)
C6_Witness ==
  /\ pc = "CreateLevel"
  /\ ~accepted
  /\ maxRecursive < RetryBudget
  /\ batch # <<>>
  /\ Len(blocks_) = Len(batch)

(* C7: the retry budget of a slot is 30 and the counter reaching zero is   *)
(* fatal: after 30 rejections in a row CreateLevel has aborted, so its    *)
(* loop never goes on to draw a candidate with the counter at zero.       *)
C7_CounterZeroIsFatal == pc = "CreateLevel" => maxRecursive > 0

(* C8: a CreateLevel call always ends, by the fatal abort or with the     *)
(* batch complete and one UpdatePath call that hands over the rails; as   *)
(* long as it runs, no other callback acts.                               *)
C8_CreateLevelTerminates ==
  /\ (pc = "CreateLevel") ~> (pc # "CreateLevel")
  /\ [][(pc = "CreateLevel" /\ pc' # "CreateLevel") =>
          \/ pc' = "aborted"
          \/ /\ cnt = 0
             /\ addToPathCalls' = AddToPathPerCall
             /\ pc' \in {"idle", "HandleUpdate"}]_vars
  /\ [][(pc = "CreateLevel" /\ pc' = "CreateLevel") =>
          UNCHANGED <<caller, charVars, isPlaying_, highScore, menuShown>>]_vars

(* A second batch of a level has been completed. *)
C8_Witness ==
  /\ pc \in {"idle", "HandleUpdate"}
  /\ numPlaced > BatchCount
  /\ addToPathCalls = AddToPathPerCall

(* C9: an accepted block has its In socket at the anchor in effect before *)
(* the pass; the first block of a level is at the anchor of InitGame and  *)
(* every later block at the exit of the block accepted before it: Out for *)
(* a block with fewer than two exits, the exit of the turn decision for a *)
(* fork.                                                                  *)
C9_Chain ==
  [][(numPlaced' = numPlaced + 1) =>
       /\ lastBlock'.inAt = lastOut
       /\ blocks_'[Len(blocks_')] = lastBlock'
       /\ IF numPlaced = 0
          THEN lastBlock'.inAt = InitAnchor
          ELSE IF lastBlock.outs >= 2
               THEN /\ turnState # NO_SUCCEEDED
                    /\ lastBlock'.inAt =
                         <<lastBlock.id,
                           IF turnState = LEFT_SUCCEEDED THEN "OutL" ELSE "OutR">>
               ELSE lastBlock'.inAt = <<lastBlock.id, "Out">>]_vars

(* A block placed at the left exit of a fork, behind a block placed at    *)
(* an Out socket.                                                         *)
C9_Witness ==
  /\ numPlaced >= 3
  /\ lastBlock.inAt[2] = "OutL"

(* C10: when UpdatePath(false) resolves the fork at the front of the      *)
(* queue, LEFT_SUCCEEDED appends the OutL portions and sets the anchor to *)
(* OutL, any other decision appends the OutR portions and sets the anchor *)
(* to OutR; the three rails take the same branch and the fork is popped.  *)
C10_TurnSelectsBranch ==
  [][(/\ PathCallState
      /\ pc' \in {"HandleUpdate", "CreateLevel"}
      /\ caller' # "HandleControlClicked"
      /\ blocks_ # <<>>
      /\ Head(blocks_).outs >= 2
      /\ turnState # NO_SUCCEEDED) =>
       LET f == Head(blocks_)
           x == IF turnState = LEFT_SUCCEEDED THEN "OutL" ELSE "OutR"
       IN /\ lastOut' = <<f.id, x>>
          /\ Len(centerPath') > Len(centerPath)
          /\ centerPath'[Len(centerPath) + 1] = <<f.id, "Center", x>>
          /\ Len(leftPath') > Len(leftPath)
          /\ leftPath'[Len(leftPath) + 1] = <<f.id, "Left", x>>
          /\ Len(rightPath') > Len(rightPath)
          /\ rightPath'[Len(rightPath) + 1] = <<f.id, "Right", x>>
          /\ \A i \in 1..Len(blocks_') : blocks_'[i].id # f.id]_vars

(* The rails after a left turn: an OutL portion on each, and the anchor   *)
(* at that fork's OutL socket.                                            *)
C10_Witness ==
  \E i \in 1..Len(centerPath) :
     /\ centerPath[i][3] = "OutL"
     /\ leftPath[i][3] = "OutL"
     /\ rightPath[i][3] = "OutL"
     /\ lastOut = <<centerPath[i][1], "OutL">>

(* Whether portion p may be appended right after portion prev. *)
Follows(prev, p) ==
  IF p.posix = "In"
  THEN /\ p.id = prev.id + 1
       /\ \/ prev = NoPortion
          \/ prev.posix \in {"Out", "OutL", "OutR"}
          \/ prev.posix = "In" /\ prev.outs = 0
  ELSE /\ p.id = prev.id
       /\ prev.posix = "In"
       /\ prev.outs > 0
       /\ p.posix \in (IF prev.outs >= 2 THEN {"OutL", "OutR"} ELSE {"Out"})

(* The last portion a block contributes. *)
IsLastPortionOf(point, b) ==
  /\ point[1] = b.id
  /\ IF b.outs = 0 THEN point[3] = "In" ELSE point[3] \in {"Out", "OutL", "OutR"}

(* C11: the portions appended to the rails of a level follow the blocks   *)
(* in the order of their acceptance, none skipped, repeated or reordered: *)
(* the In portion of a 0-exit block is followed by the In portion of the  *)
(* next block, the In portion of a block with exits by the Out portion of *)
(* its (chosen) exit, and an Out portion by the In portion of the next    *)
(* block; the three rails grow by the same portions; a block leaves the   *)
(* queue of a running level only in a step that appends its last portion. *)
C11_PortionOrder ==
  /\ [][(Len(centerPath') > Len(centerPath)) =>
          LET old == Len(centerPath)
              n == Len(centerPath') - old
              new == [i \in 1..n |-> PortionOf(centerPath'[old + i])]
          IN /\ SubSeq(centerPath', 1, old) = centerPath
             /\ Follows(lastPortion, new[1])
             /\ \A i \in 1..(n - 1) : Follows(new[i], new[i + 1])
             /\ lastPortion' = new[n]
             /\ Len(leftPath') = Len(leftPath) + n
             /\ Len(rightPath') = Len(rightPath) + n
             /\ \A i \in 1..n :
                  /\ centerPath'[old + i][2] = "Center"
                  /\ leftPath'[Len(leftPath) + i] =
                       <<new[i].id, "Left", new[i].posix>>
                  /\ rightPath'[Len(rightPath) + i] =
                       <<new[i].id, "Right", new[i].posix>>]_vars
  /\ [][(~(menuShown /\ ~menuShown') /\ pc' # "exited") =>
          \A i \in 1..Len(blocks_) :
             (\A j \in 1..Len(blocks_') : blocks_'[j].id # blocks_[i].id) =>
                \E k \in (Len(centerPath) + 1)..Len(centerPath') :
                   IsLastPortionOf(centerPath'[k], blocks_[i])]_vars

(* The In portion of a block placed behind a fork has been appended right *)
(* after the fork's left Out portion.                                     *)
C11_Witness ==
  /\ lastPortion.posix = "In"
  /\ lastPortion.id >= 3
  /\ Len(centerPath) >= 2
  /\ centerPath[Len(centerPath) - 1][3] = "OutL"
  /\ centerPath[Len(centerPath)][3] = "In"

(* C12: between callbacks, while a level is played with a live character, *)
(* the placement queue holds at least one block.                          *)
C12_QueueNonEmpty == (pc = "idle" /\ hasCharacter /\ ~dead) => blocks_ # <<>>

(* C13: a block with 0 exits is accepted without a clearance probe being  *)
(* cast, and a 0-exit candidate is never rejected: while the forced start *)
(* block of a level is a 0-exit block, no retry is used up before it is   *)
(* accepted.                                                              *)
C13_DeadEndNotProbed ==
  /\ \A i \in 1..Len(batch) : batch[i].outs = 0 => batch[i].probes = <<>>
  /\ (pc = "CreateLevel" /\ numPlaced = 0 /\ blockNames_ # <<>>
        /\ blockNames_[1] = 0) => maxRecursive = RetryBudget

(* C14: a CreateLevel call accepts exactly 3 blocks unless a fork ends it *)
(* earlier: without a fork in the batch the remaining count is 3 minus    *)
(* the blocks accepted, so a 0-exit or 1-exit block never ends the batch  *)
(* early; with a fork the fork is the last block; a finished batch holds  *)
(* between 1 and 3 blocks.                                                *)
C14_BatchSize ==
  pc = "CreateLevel" =>
    LET forks == {i \in 1..Len(batch) : batch[i].outs >= 2}
    IN /\ Len(batch) <= BatchCount
       /\ IF forks = {}
          THEN cnt = BatchCount - Len(batch)
          ELSE cnt = 0 /\ forks = {Len(batch)}
       /\ cnt = 0 => (Len(batch) >= 1 /\ Len(batch) <= BatchCount)

(* A finished batch of three blocks: a 1-exit block, a 0-exit block and   *)
(* one more block that is no fork.                                        *)
C14_Witness ==
  /\ pc = "CreateLevel"
  /\ cnt = 0
  /\ Len(batch) = 3
  /\ batch[1].outs = 1
  /\ batch[2].outs = 0
  /\ batch[3].outs < 2

C16_SlotStartsFull ==
  [][(/\ pc' = "CreateLevel"
      /\ cnt' > 0
      /\ (pc # "CreateLevel" \/ numPlaced' = numPlaced + 1)) =>
       maxRecursive' = RetryBudget]_vars

(* A later call of a level, right after an acceptance that leaves a slot *)
(* to fill.                                                              *)
C16_Witness ==
  /\ pc = "CreateLevel"
  /\ accepted
  /\ cnt > 0
  /\ cnt < BatchCount
  /\ numPlaced > BatchCount
  /\ maxRecursive = RetryBudget

(* C17: an acceptance appends the block at the tail of the queue, adds 1  *)
(* to numBlocks_ and moves the anchor to an exit socket of that block;    *)
(* the queue holds its blocks in the order of acceptance, the tail being  *)
(* the block accepted last, and any other change of the queue removes     *)
(* blocks from the front.                                                 *)
C17_AcceptFifo ==
  /\ [](/\ \A i \in 1..(Len(blocks_) - 1) : blocks_[i + 1].id = blocks_[i].id + 1
        /\ blocks_ # <<>> => blocks_[Len(blocks_)].id = numPlaced)
  /\ [][(numPlaced' = numPlaced + 1) =>
          /\ blocks_' = Append(blocks_, lastBlock')
          /\ numBlocks_' = numBlocks_ + 1
          /\ \E x \in Sockets(lastBlock'.outs) : lastOut' = <<lastBlock'.id, x>>]_vars
  /\ [][(blocks_' # blocks_ /\ numPlaced' # numPlaced + 1) =>
          \E k \in 1..Len(blocks_) :
             blocks_' = SubSeq(blocks_, k + 1, Len(blocks_))]_vars

(* A queue of a later batch with two blocks, the second just accepted. *)
C17_Witness ==
  /\ pc = "CreateLevel"
  /\ accepted
  /\ Len(blocks_) = 2
  /\ blocks_[1].id > BatchCount
  /\ numBlocks_ = blocks_[2].id

(* C18 as stated: while a level runs, the anchor changes only in a step   *)
(* of CreateLevel that accepts a block (InitGame sets its first value).   *)
C18_Original ==
  [][(lastOut' # lastOut /\ ~(menuShown /\ ~menuShown')) =>
       numPlaced' = numPlaced + 1]_vars

(* C18 amended: the anchor has three writers: InitGame, which sets the    *)
(* start transform; CreateLevel, right after a block is accepted; and     *)
(* UpdatePath(false) when it resolves the fork in front of the queue,     *)
(* which moves the anchor to the exit of the turn decision. Rejections, a *)
(* deferred UpdatePath, UpdatePath() and all other steps leave it alone.  *)
C18_AnchorWriters ==
  [][(lastOut' # lastOut) =>
       \/ numPlaced' = numPlaced + 1
       \/ menuShown /\ ~menuShown' /\ lastOut' = InitAnchor
       \/ /\ PathCallState
          /\ pc' \in {"HandleUpdate", "CreateLevel"}
          /\ blocks_ # <<>>
          /\ Head(blocks_).outs >= 2
          /\ turnState # NO_SUCCEEDED
          /\ \E x \in {"OutL", "OutR"} : lastOut' = <<Head(blocks_).id, x>>]_vars

(* CreateLevel entered by the update callback whose UpdatePath(false) has *)
(* just moved the anchor to the left exit of a fork.                      *)
C18_Witness ==
  /\ pc = "CreateLevel"
  /\ caller = "HandleUpdate"
  /\ batch = <<>>
  /\ lastBlock.outs >= 2
  /\ lastOut = <<lastBlock.id, "OutL">>

(* A step of the update callback, from its entry to the point where      *)
(* CreateLevel is entered or skipped.                                     *)
UpdateCallbackStep ==
  /\ pc = "idle"
  /\ pc' \in {"HandleUpdate", "CreateLevel"}
  /\ caller' # "HandleControlClicked"

(* C19 as stated: when path maintenance runs and leaves fewer than 3      *)
(* blocks in the queue, CreateLevel is called in the same callback.       *)
C19_Original ==
  [][(UpdateCallbackStep /\ PathCallState /\ Len(blocks_') < BatchCount) =>
       pc' = "CreateLevel"]_vars

(* C19 amended: when path maintenance runs, CreateLevel is called in the  *)
(* same callback exactly when UpdatePath(false) has left the queue empty; *)
(* a queue of 1 or 2 blocks is not refilled.                              *)
C19_ReplenishWhenEmpty ==
  [][(UpdateCallbackStep /\ PathCallState) =>
       /\ (pc' = "CreateLevel") <=> (UpdatePath(FALSE).blocks = <<>>)
       /\ (pc' = "CreateLevel") =>
             (caller' = "HandleUpdate" /\ cnt' = BatchCount /\ blocks_' = <<>>)]_vars

(* CreateLevel called by the update callback after UpdatePath(false) has  *)
(* popped the last block, a 1-exit block, of the queue.                   *)
C19_Witness ==
  /\ pc = "CreateLevel"
  /\ caller = "HandleUpdate"
  /\ batch = <<>>
  /\ blocks_ = <<>>
  /\ lastBlock.outs = 1
  /\ lastPortion = [id |-> lastBlock.id, posix |-> "Out", outs |-> 1]

CreateLevelReturns == pc = "CreateLevel" /\ pc' \in {"idle", "HandleUpdate"}

(* C21: an UpdatePath call that is not deferred makes the three AddToPath  *)
(* calls, also when it collected no point, and a deferred call makes none; *)
(* the calls hand over what the whole walk collected, and the three rails  *)
(* hold, point for point, the same portion of the same block.              *)
C21_ThreeCallsPerPath ==
  /\ [](/\ Len(leftPath) = Len(centerPath)
        /\ Len(rightPath) = Len(centerPath)
        /\ \A i \in 1..Len(centerPath) :
             /\ centerPath[i][2] = "Center"
             /\ leftPath[i] = <<centerPath[i][1], "Left", centerPath[i][3]>>
             /\ rightPath[i] = <<centerPath[i][1], "Right", centerPath[i][3]>>)
  /\ [][(UpdateCallbackStep /\ PathCallState) =>
          /\ addToPathCalls' = IF UpdatePath(FALSE).deferred
                               THEN 0 ELSE AddToPathPerCall
          /\ centerPath' = IF UpdatePath(FALSE).deferred THEN centerPath
                           ELSE centerPath \o UpdatePath(FALSE).points.center]_vars
  /\ [][CreateLevelReturns =>
          /\ addToPathCalls' = AddToPathPerCall
          /\ centerPath' = centerPath \o UpdatePath(TRUE).points.center]_vars

(* The update callback found the queue empty after a batch of three blocks *)
(* without exits: UpdatePath(false) collected nothing and still made the   *)
(* three calls.                                                            *)
C21_Witness ==
  /\ pc = "CreateLevel" /\ caller = "HandleUpdate" /\ batch = <<>>
  /\ addToPathCalls = AddToPathPerCall
  /\ centerPath = << <<1, "Center", "In">>, <<2, "Center", "In">>,
                     <<3, "Center", "In">> >>

(* A pass of CreateLevel's loop accepts its candidate. *)
AcceptStep == pc = "CreateLevel" /\ numPlaced' = numPlaced + 1

(* C22: while CreateLevel is placing blocks nothing reaches the rails; an  *)
(* acceptance sets up the item groups of its block; CreateLevel returns    *)
(* only with the batch complete, the block accepted last at the back of    *)
(* the queue, and its return is one UpdatePath call in from-start mode.    *)
C22_PathAfterBatch ==
  /\ [][(pc = "CreateLevel" /\ pc' = "CreateLevel") =>
          UNCHANGED <<leftPath, rightPath, centerPath, addToPathCalls,
                      lastPortion>>]_vars
  /\ [][AcceptStep =>
          /\ Len(groups') = Len(GroupsOf(lastBlock'.idx))
          /\ groups' # <<>> => \E k \in 1..Len(groups') : groups'[k].enabled]_vars
  /\ [][CreateLevelReturns =>
          /\ cnt = 0 /\ accepted /\ batch # <<>>
          /\ blocks_ # <<>> /\ blocks_[Len(blocks_)] = batch[Len(batch)]
          /\ blocks_' = UpdatePath(TRUE).blocks
          /\ lastOut' = UpdatePath(TRUE).lastOut
          /\ leftPath' = leftPath \o UpdatePath(TRUE).points.left
          /\ rightPath' = rightPath \o UpdatePath(TRUE).points.right
          /\ centerPath' = centerPath \o UpdatePath(TRUE).points.center
          /\ addToPathCalls' = AddToPathPerCall]_vars

(* InitGame's CreateLevel has returned: three blocks are queued and the    *)
(* rails hold the In portion of the first one, handed over by one call.    *)
C22_Witness ==
  /\ pc = "idle" /\ hasCharacter /\ ~dead
  /\ numPlaced = BatchCount /\ Len(blocks_) = BatchCount
  /\ addToPathCalls = AddToPathPerCall
  /\ centerPath = << <<1, "Center", "In">> >>

(* A step inside the call chain of the update callback. *)
InUpdateChain ==
  \/ UpdateCallbackStep
  \/ pc = "HandleUpdate"
  \/ pc = "CreateLevel" /\ caller = "HandleUpdate"

(* A step inside the call chain of a click on "PlayBtn" or "ExitBtn". *)
InClickChain ==
  \/ pc = "idle" /\ menuShown /\ (~menuShown' \/ pc' = "exited")
  \/ pc = "CreateLevel" /\ caller = "HandleControlClicked"

PlayStep == pc = "idle" /\ menuShown /\ ~menuShown'

(* InitGame returns: the CreateLevel call it ends with has returned. *)
InitGameReturns == CreateLevelReturns /\ caller = "HandleControlClicked"

(* C24 as stated: the click on "PlayBtn" leaves the queue empty, and when  *)
(* InitGame has returned the anchor is at its initial value and the queue  *)
(* holds only blocks of the new level.                                     *)
C24_Original ==
  /\ [][PlayStep => blocks_' = <<>>]_vars
  /\ [][InitGameReturns =>
          /\ lastOut' = InitAnchor
          /\ \A i \in 1..Len(blocks_') :
               \E j \in 1..Len(batch) : blocks_'[i] = batch[j]]_vars

(* C24 amended: the queue is empty whenever there is no character and      *)
(* after every ResetGame; InitGame puts the anchor back to its initial     *)
(* value before it calls CreateLevel, so the first block of the level is   *)
(* placed there, and when it returns the anchor is the exit of the block   *)
(* accepted last and the queue holds only blocks of its own batch; the     *)
(* queue is always the blocks accepted last in the current level and the   *)
(* rails hold points of blocks of the current level only.                  *)
C24_ResetReleasesLevel ==
  /\ [](~hasCharacter => blocks_ = <<>>)
  /\ [](\A i \in 1..Len(blocks_) : blocks_[i].id = numPlaced - Len(blocks_) + i)
  /\ [](\A i \in 1..Len(centerPath) : centerPath[i][1] \in 1..numPlaced)
  /\ [][PlayStep =>
          /\ blocks_' = <<>> /\ lastOut' = InitAnchor
          /\ centerPath' = <<>> /\ numPlaced' = 0]_vars
  /\ [][(AcceptStep /\ numPlaced = 0) => lastBlock'.inAt = InitAnchor]_vars
  /\ [][InitGameReturns =>
          /\ lastOut' = <<numPlaced, OutNode(lastBlock.outs)>>
          /\ \A i \in 1..Len(blocks_') :
               \E j \in 1..Len(batch) : blocks_'[i] = batch[j]]_vars

(* The level after a death has been set up: its queue holds the three      *)
(* blocks of its first batch and the anchor is the exit of the third.      *)
C24_Witness ==
  /\ pc = "idle" /\ hasCharacter /\ ~dead /\ highScore > 0
  /\ numPlaced = BatchCount /\ Len(blocks_) = BatchCount
  /\ blocks_[1].inAt = InitAnchor
  /\ lastOut = <<BatchCount, "Out">>

(* The post-update callback handles a death. *)
DeathHandled ==
  pc = "idle" /\ hasCharacter /\ dead /\ isPlaying_ /\ ~isPlaying_'

(* C25: the high score never decreases; a handled death makes it the       *)
(* larger of itself and the score of that game and shows the new-record    *)
(* marker exactly when that score is strictly greater; no other step, a    *)
(* restart included, changes it. It therefore is the largest final score   *)
(* of the deaths handled so far, and 0 before the first.                   *)
C25_HighScore ==
  /\ [][highScore' >= highScore]_vars
  /\ [][DeathHandled =>
          /\ highScore' >= score
          /\ highScore' \in {highScore, score}
          /\ recordMarker' = (score > highScore)]_vars
  /\ [][~DeathHandled => highScore' = highScore]_vars
  /\ [](recordMarker => menuShown /\ dead /\ score = highScore)

(* A later game ended with the score of the record: the high score has     *)
(* survived the restart and the marker is not shown.                       *)
C25_Witness ==
  /\ menuShown /\ dead /\ ~isPlaying_
  /\ score = highScore /\ highScore > 0
  /\ ~recordMarker

(* C26: an acceptance handles the item groups of its block and goes on:   *)
(* a block without groups is left without any, a block with groups keeps  *)
(* exactly one enabled, every other group is disabled and gets nothing,   *)
(* an empty chosen group gets nothing, and whatever the groups are the    *)
(* block is counted, queued and made the anchor and the loop continues.   *)
C26_ItemGroups ==
  [][AcceptStep =>
      LET items == GroupsOf(lastBlock'.idx)
      IN /\ Len(groups') = Len(items)
         /\ items # <<>> =>
              \E k \in 1..Len(items) :
                /\ groups'[k].enabled
                /\ groups'[k].controllers = items[k]
                /\ \A j \in 1..Len(items) :
                     j # k => ~groups'[j].enabled /\ groups'[j].controllers = 0
         /\ pc' = "CreateLevel"
         /\ accepted'
         /\ numBlocks_' = numBlocks_ + 1
         /\ blocks_' = Append(blocks_, lastBlock')
         /\ lastOut' = <<lastBlock'.id, OutNode(lastBlock'.outs)>>]_vars

(* A block with two groups was accepted and the empty group was chosen:   *)
(* it is the only one enabled and nothing was placed.                     *)
C26_Witness ==
  /\ pc = "CreateLevel" /\ accepted
  /\ Len(groups) = 2
  /\ ~groups[1].enabled /\ groups[2].enabled
  /\ groups[1].controllers = 0 /\ groups[2].controllers = 0

(* C27: between the calls of a game, the front of a non-empty queue has an *)
(* exit, the portion appended last is the In portion of that block, and    *)
(* the rails hold no point of a block behind it.                           *)
C27_FrontReadFromIn ==
  (pc \in {"idle", "HandleUpdate"} /\ hasCharacter /\ blocks_ # <<>>) =>
    /\ Head(blocks_).outs > 0
    /\ lastPortion = [id |-> Head(blocks_).id, posix |-> "In",
                      outs |-> Head(blocks_).outs]
    /\ \A i \in 1..Len(centerPath) : centerPath[i][1] <= Head(blocks_).id

(* UpdatePath(false) has popped the first block of the level: the second   *)
(* one is the front, read from its In side, with a block behind it.        *)
C27_Witness ==
  /\ pc = "HandleUpdate" /\ hasCharacter
  /\ Len(blocks_) = 2
  /\ Head(blocks_).id = 2
  /\ lastPortion.id = 2 /\ lastPortion.posix = "In"

(* The queue holds a fork; the fork is at its front. *)
HasFork == \E i \in 1..Len(blocks_) : blocks_[i].outs >= 2

FrontIsFork == blocks_ # <<>> /\ Head(blocks_).outs >= 2

(* The exit of a fork the turn state stands for. *)
ChosenExit == IF turnState = LEFT_SUCCEEDED THEN "OutL" ELSE "OutR"

(* C28: a fork is the last block of the queue; while it is queued and the  *)
(* turn state is pending no block is placed and CreateLevel is not called; *)
(* an update callback that maintains the path with a decided turn state    *)
(* and the fork at the front empties the queue, moves the anchor to the    *)
(* chosen exit and calls CreateLevel, whose first block is placed at that  *)
(* exit and which returns only after it has accepted a block.              *)
C28_ForkResolution ==
  /\ [](\A i \in 1..Len(blocks_) : blocks_[i].outs >= 2 => i = Len(blocks_))
  /\ [][(HasFork /\ turnState = NO_SUCCEEDED /\ ~PlayStep) =>
          ~AcceptStep /\ ~(pc = "idle" /\ pc' = "CreateLevel")]_vars
  /\ [][(UpdateCallbackStep /\ PathCallState /\ FrontIsFork /\
           turnState # NO_SUCCEEDED) =>
          /\ blocks_' = <<>>
          /\ lastOut' = <<Head(blocks_).id, ChosenExit>>
          /\ pc' = "CreateLevel" /\ caller' = "HandleUpdate"]_vars
  /\ [][(AcceptStep /\ caller = "HandleUpdate" /\ batch = <<>> /\
           lastBlock.outs >= 2) =>
          lastBlock'.inAt = <<lastBlock.id, ChosenExit>>]_vars
  /\ [][(CreateLevelReturns /\ caller = "HandleUpdate") => batch # <<>>]_vars

(* The update callback resolved a fork to the left and its CreateLevel has *)
(* placed the first block of the next batch at the left exit.              *)
C28_Witness ==
  /\ pc = "CreateLevel" /\ caller = "HandleUpdate"
  /\ turnState = LEFT_SUCCEEDED
  /\ Len(batch) = 1
  /\ batch[1].inAt[2] = "OutL"
  /\ blocks_ = batch

(* C29: CreateLevel is entered only by a click on "PlayBtn" or by the    *)
(* update callback, and only with the queue empty; the queue never holds  *)
(* more blocks than one batch.                                            *)
C29_StartsOnEmptyQueue ==
  /\ [](Len(blocks_) <= BatchCount)
  /\ [][(pc # "CreateLevel" /\ pc' = "CreateLevel") =>
          /\ PlayStep \/ UpdateCallbackStep
          /\ blocks_' = <<>>
          /\ cnt' = BatchCount]_vars

(* The level after a death: CreateLevel, started on the queue ResetGame   *)
(* emptied, has filled it with three blocks.                              *)
C29_Witness ==
  /\ pc = "CreateLevel" /\ caller = "HandleControlClicked"
  /\ highScore > 0
  /\ cnt = 0
  /\ Len(blocks_) = BatchCount
  /\ blocks_ = batch

(* C30: the step taken at a death that is still to be handled shows the   *)
(* menu, sets isPlaying_ to false and numBlocks_ to 0; as long as the      *)
(* character stays dead after that, isPlaying_, numBlocks_, the high score *)
(* and the menu stay as they are; no callback sets isPlaying_ to true      *)
(* while the character is dead.                                            *)
C30_DeathHandledOnce ==
  /\ [][(pc = "idle" /\ hasCharacter /\ dead /\ isPlaying_) =>
          /\ menuShown' /\ ~isPlaying_' /\ numBlocks_' = 0
          /\ dead' /\ hasCharacter']_vars
  /\ [][(hasCharacter /\ dead /\ ~isPlaying_ /\ hasCharacter' /\ dead') =>
          UNCHANGED <<isPlaying_, numBlocks_, highScore, menuShown,
                      recordMarker>>]_vars
  /\ [][(hasCharacter /\ dead /\ isPlaying_') => isPlaying_]_vars

(* A death has been handled after two batches: the menu is shown, the     *)
(* game is not being played and numBlocks_ is back at 0.                  *)
C30_Witness ==
  /\ pc = "idle" /\ hasCharacter /\ dead
  /\ menuShown /\ ~isPlaying_
  /\ numBlocks_ = 0 /\ numPlaced > BatchCount

(* C31: between callbacks a dead character either has the menu shown and *)
(* numBlocks_ at 0, or its death is still one the post-update callback   *)
(* handles (isPlaying_ is true), so that the menu gets shown and a        *)
(* restart is possible after every death.                                 *)
C31_DeathShowsMenu ==
  (pc = "idle" /\ hasCharacter /\ dead) =>
    (menuShown /\ numBlocks_ = 0) \/ DeathPending

(* The swipe of the current touch is over: no touch is being followed, or *)
(* a batch of samples has zeroed deltaXY_ since maxMovement_ exceeded 1.  *)
SwipeUsedUp == ~touchMoved_ \/ (deltaXY_ = Zero /\ maxMovement_ > 1)

(* C32: a swipe is one-shot within a touch. Touch begin clears deltaXY_   *)
(* and maxMovement_; UpdateTouches sets a directional control only while  *)
(* a touch is followed and deltaXY_ is non-zero, and counts every         *)
(* activation in maxMovement_; a completed batch of move samples zeroes   *)
(* deltaXY_ once maxMovement_ exceeds 1, and from then on no directional  *)
(* control is set until the next touch begin; touch end and Reset stop    *)
(* the directional controls from the next call of UpdateTouches on.       *)
C32_SwipeOneShot ==
  /\ [][HandleTouchBegin => deltaXY_' = Zero /\ maxMovement_' = 0]_vars
  /\ [][UpdateTouchesCall =>
         /\ touchControls' \subseteq Directions
         /\ touchControls' # {} =>
              numTouches > 0 /\ touchMoved_ /\ deltaXY_ # Zero
         /\ maxMovement_' = maxMovement_ + numTouches * Cardinality(touchControls')]_vars
  /\ [][HandleTouchMove /\ Len(moveTouches_) >= SampleSize /\ maxMovement_ > 1 =>
         deltaXY_' = Zero]_vars
  /\ [][SwipeUsedUp /\ ~HandleTouchBegin =>
         /\ SwipeUsedUp'
         /\ UpdateTouchesCall => touchControls' = {}]_vars
  /\ [][HandleTouchEnd \/ ResetCall => ~touchMoved_' /\ SwipeUsedUp']_vars

(* A touch whose swipe has been used: the control was counted past 1, the *)
(* next batch has zeroed deltaXY_ and UpdateTouches has set no control.   *)
C32_Witness ==
  /\ touchMoved_
  /\ numTouches > 0
  /\ maxMovement_ > 1
  /\ deltaXY_ = Zero
  /\ moveTouches_ = <<>>
  /\ touchControls = {}
====
